---- MODULE Spec2Model ----
(***************************************************************************)
(* MapleSEA -> Discord notifier (maplesea_notifier.py).                    *)
(*                                                                         *)
(* The state machine follows run_once step by step: load_state, one        *)
(* iteration of the collecting loop per section, one iteration of the      *)
(* retry loop of send_to_discord per POST, and save_state.  The listing    *)
(* pages, the state file found at the first run and every answer of the    *)
(* webhook are inputs chosen nondeterministically.  Runs are serialized:   *)
(* a new run starts only when the previous one has returned or raised.     *)
(***************************************************************************)
EXTENDS Integers, Sequences, FiniteSets, TLC

\* ---------------------------------------------------------------- bounds
\* Number of distinct item urls the site can list.
MaxUrl == 2
\* The delay a parsable Retry-After header asks for, in milliseconds.
HintDelay == 1000

\* ------------------------------------------------------ program constants
\* send_to_discord(item, max_retries=5)
max_retries == 5
\* sleep_s = 2.0 : the fallback backoff delay, in milliseconds
FallbackDelay == 2000
\* POST_SPACING = 0.5 seconds, in milliseconds
POST_SPACING == 500

\* CHECK_PAGES, in insertion order (the first two of the five entries).
CHECK_PAGES == << "Updates", "News" >>

Sections == { CHECK_PAGES[i] : i \in 1..Len(CHECK_PAGES) }

\* Position of a section in CHECK_PAGES.
SectionIndex(s) == CHOOSE i \in 1..Len(CHECK_PAGES) : CHECK_PAGES[i] = s

\* ------------------------------------------------------------------ urls
\* A url string is abstracted to (abs, id): abs tells whether it starts with
\* the site origin "https://www.maplesea.com", id names the view path.
Url(a, n) == [abs |-> a, id |-> n]

AllUrls == { Url(a, n) : a \in BOOLEAN, n \in 1..MaxUrl }

AbsUrls == { Url(TRUE, n) : n \in 1..MaxUrl }

\* Lexicographic rank of the url string: "../x" sorts before "https://...".
UrlKey(u) == IF u.abs THEN MaxUrl + u.id ELSE u.id

\* sorted(list(already))
RECURSIVE Sorted(_)
Sorted(S) ==
    IF S = {} THEN << >>
    ELSE LET m == CHOOSE x \in S : \A y \in S : UrlKey(x) <= UrlKey(y)
         IN  << m >> \o Sorted(S \ {m})

\* set(list)
ToSet(seq) == { seq[i] : i \in 1..Len(seq) }

\* --------------------------------------------------------- extract_items
\* An anchor matched by soup.select: its href attribute (form + view id),
\* its rendered text and the date-ish text found in its parent ("" if none).
HrefForms == { "empty", "rooted", "full", "relative" }

Anchor(f, n, t, d) == [href |-> [form |-> f, id |-> n], title |-> t, near |-> d]

\* if href.startswith("/"): href = "https://www.maplesea.com" + href
ResolveHref(href) ==
    IF href.form = "rooted" THEN Url(TRUE, href.id)
    ELSE Url(href.form = "full", href.id)

\* if not href or not title: continue
IsCandidate(a) == a.href.form # "empty" /\ a.title # ""

MakeItem(section_name, a) ==
    [section |-> section_name, title |-> a.title,
     url |-> ResolveHref(a.href), date_hint |-> a.near]

\* Mutant of Dedupe: of the items of one url the last one is kept.
RECURSIVE Dedupe_KeepsLast(_, _)
Dedupe_KeepsLast(items, seen_urls) ==
    IF items = << >> THEN << >>
    ELSE IF \E i \in 1..Len(Tail(items)) : Tail(items)[i].url = Head(items).url
         THEN Dedupe_KeepsLast(Tail(items), seen_urls)
         ELSE << Head(items) >> \o Dedupe_KeepsLast(Tail(items), seen_urls)

\* dedupe by url: keep the first occurrence, in order
RECURSIVE Dedupe(_, _)
Dedupe(items, seen_urls) ==
    IF items = << >> THEN << >>
    ELSE IF Head(items).url \in seen_urls
         THEN Dedupe(Tail(items), seen_urls)
         ELSE << Head(items) >> \o Dedupe(Tail(items), seen_urls \cup {Head(items).url})

extract_items(section_name, anchors) ==
    LET kept  == SelectSeq(anchors, IsCandidate)
        items == [i \in 1..Len(kept) |-> MakeItem(section_name, kept[i])]
    IN  Dedupe(items, {})

\* ------------------------------------------------------------ the site
\* Listing pages of the pipeline runs: rooted links with a title, each view
\* linked at most once per page.
MainAnchor(n) == Anchor("rooted", n, "t", "")

Injective(seq) == \A i, j \in 1..Len(seq) : i # j => seq[i] # seq[j]

\* Any selection of the views, in any document order.
SitePages ==
    { p \in UNION { [1..n -> { MainAnchor(i) : i \in 1..MaxUrl }] : n \in 0..MaxUrl } :
        Injective(p) }

\* The views 1..n in that order.  Every site is one whose first section
\* lists such a page, after renaming the views.
PrefixPages == { [i \in 1..n |-> MainAnchor(i)] : n \in 0..MaxUrl }

Sites ==
    { st \in [Sections -> SitePages] : st[CHECK_PAGES[1]] \in PrefixPages }

\* Anchors as a listing page can hold them: every form of href, with a
\* title and no date nearby ("t"), another title and a date ("u", "d"), or
\* no rendered text at all.
RawAnchors ==
    { Anchor(f, n, t, IF t = "u" THEN "d" ELSE "") :
        f \in HrefForms \ {"empty"}, n \in 1..MaxUrl, t \in {"t", "u"} }
    \cup { Anchor("empty", 1, "t", "") }
    \cup { Anchor("rooted", n, "", "") : n \in 1..MaxUrl }

\* Pages of up to MaxUrl + 1 anchors, repeated links included.
RawPages == UNION { [1..n -> RawAnchors] : n \in 0..(MaxUrl + 1) }

\* One raw page under the first section, nothing under the others.
RawSites ==
    { [s \in Sections |-> IF s = CHECK_PAGES[1] THEN p ELSE << >>] : p \in RawPages }

\* Pages of at most one link, written "/..." or "../...".
LinkPages ==
    { << >> } \cup { << Anchor(f, n, "t", "") >> : f \in {"rooted", "relative"}, n \in 1..MaxUrl }

LinkSites == [Sections -> LinkPages]

\* ------------------------------------------------------- the state file
\* kind: "missing"    no file
\*       "unreadable" read_text raises (permissions, bad encoding)
\*       "garbage"    not JSON (also an empty or truncated file)
\*       "nonobject"  well-formed JSON that is not an object, e.g. []
\*       "badseen"    an object whose "seen" is not iterable, e.g. null or 5
\*       "nokey"      an object without a "seen" key
\*       "ok"         {"seen": [url, ...]}
FileKinds == { "missing", "unreadable", "garbage", "nonobject", "badseen", "nokey", "ok" }

File(k, lst) == [kind |-> k, seen |-> lst]

\* What a run of the program leaves, or no file at all.
ProgramFiles ==
    { File("missing", << >>) } \cup { File("ok", Sorted(S)) : S \in SUBSET AbsUrls }

\* Any content: also what an editor, a merge or a full disk leaves.
AnyFiles == { File(k, << >>) : k \in FileKinds \ {"ok"} } \cup ProgramFiles

\* Any content, and what a run leaves that has delivered "../..." links.
StoredFiles == AnyFiles \cup { File("ok", Sorted(S)) : S \in SUBSET AllUrls }

\* ensure_state_file, given whether its write_text succeeds
ensure_state_file(f, w) ==
    IF f.kind = "missing" /\ w = "ok" THEN File("ok", << >>) ELSE f

\* ensure_state_file raises: the file is absent and cannot be created
EnsureRaises(f, w) == f.kind = "missing" /\ w # "ok"

\* load_state on an existing file: the parsed JSON, or {"seen": []} when
\* read_text or json.loads raises
load_state(f) ==
    IF f.kind \in {"unreadable", "garbage"} THEN File("ok", << >>) ELSE f

\* already = set(state.get("seen", [])) raises AttributeError / TypeError
SeenRaises(state) == state.kind \in {"nonobject", "badseen"}

\* set(state.get("seen", []))
SeenOf(state) == IF state.kind = "ok" THEN ToSet(state.seen) ELSE {}

\* --------------------------------------------------------- the webhook
\* What one requests.post yields: a 2xx status, a 429, another status below
\* 400 (1xx, or a 3xx that is not followed), a 4xx/5xx other than 429, or an
\* exception raised by requests.post itself.
Responses == { "s2xx", "s429", "s3xx", "s4xx5xx", "transport_error" }

\* r.raise_for_status() raises HTTPError for 400 <= status < 600 only
RaiseForStatus(resp) == resp = "s4xx5xx"

\* The Retry-After header of a 429: missing, not a number, "1", or a number
\* that float() accepts and time.sleep() rejects (negative, nan).
Hints == { "absent", "unparsable", "number", "negative" }

\* sleep_s = float(retry_after), 2.0 when float() raises ValueError
SleepSeconds(hint) == IF hint = "number" THEN HintDelay ELSE FallbackDelay

\* time.sleep(sleep_s) raises ValueError
SleepRaises(hint) == hint = "negative"

\* ------------------------------------------------------------ the config
\* Mutant of ConfigOk: the endpoint is not checked at startup.
ConfigOk_Unchecked(url) == TRUE

\* "if not WEBHOOK_URL: raise RuntimeError" passes
ConfigOk(url) == url # ""

\* ------------------------------------------------------------- the state
VARIABLES
    WEBHOOK_URL,           \* os.environ.get("MAPLESEA_WEBHOOK_URL", "")
    file,                  \* STATE_FILE on disk
    site,                  \* section -> anchors its listing page holds
    pc,                    \* where the process is: start, collect, post, save, done,
                           \* crashed (run_once raised), fatal (the module raised)
    already,               \* run_once: already
    new_found_by_section,  \* run_once: new_found_by_section (a dict)
    sec,                   \* index in CHECK_PAGES of the next section to collect
    pos,                   \* [sec, idx]: the item the posting loops are at
    call,                  \* the current or last send_to_discord call
    posted,                \* run_once: posted
    loaded,                \* history: already as computed at line 142 of this run
    fetched,               \* history: section -> "ok" / "error" of this run's fetch
    outcome,               \* history: DeliveryOutcome of every call of this run
    writes,                \* history: number of writes to STATE_FILE in this run
    prev                   \* history: summary of the previous run

vars == << WEBHOOK_URL, file, site, pc, already, new_found_by_section, sec, pos, call,
           posted, loaded, fetched, outcome, writes, prev >>

NoPos == [sec |-> 0, idx |-> 0]

NoCall == [status |-> "none", section |-> "", url |-> Url(TRUE, 0),
           attempts |-> 0, sleeps |-> 0, slept |-> 0, last |-> "none"]

NoPrev == [saved |-> FALSE, fetched_all |-> FALSE, clean |-> FALSE,
           delivered |-> FALSE, failed |-> {}, persisted |-> {}, always_fetched |-> TRUE]

InitRun ==
    /\ WEBHOOK_URL \in {"", "hook"}
    /\ pc = "start"
    /\ already = {}
    /\ new_found_by_section = << >>
    /\ sec = 0
    /\ pos = NoPos
    /\ call = NoCall
    /\ posted = 0
    /\ loaded = {}
    /\ fetched = << >>
    /\ outcome = {}
    /\ writes = 0
    /\ prev = NoPrev

Init ==
    /\ file \in ProgramFiles
    /\ site \in Sites
    /\ InitRun

\* A sequence of runs that starts without a SeenSet: no file, or an empty
\* list.
InitRuns ==
    /\ file \in { File("missing", << >>), File("ok", << >>) }
    /\ site \in Sites
    /\ InitRun

\* A sequence of runs over pages of at most one link.
InitHistory ==
    /\ file \in { File("missing", << >>), File("ok", << >>) }
    /\ site \in { st \in Sites : \A s \in Sections : Len(st[s]) <= 1 }
    /\ InitRun

\* The first run finds a state file of any content.
InitAnyFile ==
    /\ file \in AnyFiles
    /\ site \in { st \in Sites : \A s \in Sections : Len(st[s]) <= 1 }
    /\ InitRun

\* The first run finds any state file and pages with links of both forms.
InitStore ==
    /\ file \in StoredFiles
    /\ site \in LinkSites
    /\ InitRun

\* A run with an empty SeenSet over a page of any anchors.
InitExtract ==
    /\ file = File("ok", << >>)
    /\ site \in RawSites
    /\ InitRun

\* ------------------------------------------------------------ run_once
\* Mutant of NewItems: the membership test is dropped.
NewItems_Unfiltered(items, seen) == items

\* [it for it in extract_items(section, url) if it["url"] not in already]
NewItems(items, seen) == SelectSeq(items, LAMBDA it : it.url \notin seen)

\* new_found_by_section[section] = section_items
DictPut(d, k, v) == [x \in DOMAIN d \cup {k} |-> IF x = k THEN v ELSE d[x]]

\* Mutant of Collect: an extraction that raises discards what was collected.
Collect_AbortAll(nf, section, r, items, seen) ==
    IF r = "ok" THEN DictPut(nf, section, NewItems(items, seen)) ELSE << >>

\* The try/except around one section's collection: the dict after it.
\* r: whether extract_items returned ("ok") or raised ("error").
Collect(nf, section, r, items, seen) ==
    IF r = "ok" THEN DictPut(nf, section, NewItems(items, seen)) ELSE nf

\* Mutant of to_post: the section's items are posted last first.
to_post_Reversed(items) == [i \in 1..Len(items) |-> items[Len(items) + 1 - i]]

\* to_post = items
to_post(items) == items

\* Mutant of to_skip: every item of the section is marked seen after the
\* section's posting loop, delivered or not.
to_skip_All(items) == items

\* to_skip = []
to_skip(items) == << >>

\* for it in to_skip: already.add(it["url"]), run when a section's to_post
\* loop is over
MarkSkipped(seen, items, section_over) ==
    IF section_over THEN seen \cup { it.url : it \in ToSet(to_skip(items)) } ELSE seen

\* The posting loops: for section, items in new_found_by_section.items(),
\* "if not items: continue", for it in to_post.  The position after p, or
\* NoPos when both loops are over.
NextPos(nf, p) ==
    IF p.sec > 0 /\ p.idx < Len(to_post(nf[CHECK_PAGES[p.sec]]))
    THEN [sec |-> p.sec, idx |-> p.idx + 1]
    ELSE LET later == { j \in (p.sec + 1)..Len(CHECK_PAGES) :
                          /\ CHECK_PAGES[j] \in DOMAIN nf
                          /\ Len(nf[CHECK_PAGES[j]]) > 0 }
         IN  IF later = {} THEN NoPos
             ELSE [sec |-> CHOOSE j \in later : \A k \in later : j <= k, idx |-> 1]

\* A write_text that raises leaves the file as it was (open failed) or
\* truncated (the write failed after open(..., "w")).
FailedWrite(f) == { f, File("garbage", << >>) }

\* The run that just ended, as the next run's history.
RunSummary ==
    [saved  |-> pc = "done",
     fetched_all |-> /\ pc = "done"
                     /\ \A s \in Sections : s \in DOMAIN fetched /\ fetched[s] = "ok",
     clean  |-> /\ pc = "done"
                /\ \A s \in Sections : s \in DOMAIN fetched /\ fetched[s] = "ok"
                /\ \A o \in outcome : o.result = "delivered",
     delivered |-> pc = "done" /\ posted > 0,
     failed |-> IF pc = "done"
                THEN { o.url : o \in { x \in outcome : x.result = "failed" } }
                       \ { o.url : o \in { x \in outcome : x.result = "delivered" } }
                ELSE {},
     persisted |-> {},
     always_fetched |-> TRUE]

\* The runs that have ended, as the next run's history: the summary of the
\* last one, every url a run has left in the state file, and whether every
\* run reached the save step with every source fetched.
RunsSummary ==
    [RunSummary EXCEPT
       !.persisted = prev.persisted \cup (IF pc = "done" THEN already ELSE {}),
       !.always_fetched = /\ prev.always_fetched
                          /\ pc \in {"done", "crashed"}
                          /\ \A s \in Sections : s \in DOMAIN fetched /\ fetched[s] = "ok"]

\* The process is started without an endpoint: the module raises
\* RuntimeError at line 18, before run_once is defined or called.
ConfigError ==
    /\ pc \in {"start", "fatal"}
    /\ ~ConfigOk(WEBHOOK_URL)
    /\ pc' = "fatal"
    /\ UNCHANGED << WEBHOOK_URL, file, site, already, new_found_by_section, sec, pos,
                    call, posted, loaded, fetched, outcome, writes, prev >>

\* state = load_state(); already = set(state.get("seen", []))
\* w: whether the write_text of ensure_state_file succeeds, if it is made.
\* keep: what is kept in prev of the runs that ended: "none", the "last"
\* run, or "all" runs.
StartRun(w, keep) ==
    /\ pc \in {"start", "done", "crashed"}
    /\ ConfigOk(WEBHOOK_URL)
    /\ UNCHANGED WEBHOOK_URL
    /\ prev' = IF keep = "none" \/ pc = "start" THEN NoPrev
               ELSE IF keep = "last" THEN RunSummary ELSE RunsSummary
    /\ new_found_by_section' = << >>
    /\ fetched' = << >>
    /\ outcome' = {}
    /\ posted' = 0
    /\ pos' = NoPos
    /\ call' = NoCall
    /\ writes' = IF file.kind = "missing" THEN 1 ELSE 0
    /\ UNCHANGED site
    /\ IF EnsureRaises(file, w)
       THEN /\ file' \in FailedWrite(file)
            /\ pc' = "crashed"
            /\ already' = {} /\ loaded' = {} /\ sec' = 0
       ELSE /\ file' = ensure_state_file(file, w)
            /\ LET state == load_state(file')
               IN  IF SeenRaises(state)
                   THEN /\ pc' = "crashed"
                        /\ already' = {} /\ loaded' = {} /\ sec' = 0
                   ELSE /\ pc' = "collect"
                        /\ already' = SeenOf(state)
                        /\ loaded' = SeenOf(state)
                        /\ sec' = 1

\* One iteration of "for section, url in CHECK_PAGES.items()".
\* r: whether extract_items returns ("ok") or raises ("error").
FetchSection(r) ==
    /\ pc = "collect"
    /\ LET section == CHECK_PAGES[sec]
           nf == Collect(new_found_by_section, section, r,
                         extract_items(section, site[section]), already)
       IN  /\ new_found_by_section' = nf
           /\ fetched' = DictPut(fetched, section, r)
           /\ IF sec < Len(CHECK_PAGES)
              THEN /\ sec' = sec + 1
                   /\ UNCHANGED << pc, pos >>
              ELSE /\ sec' = 0
                   /\ pos' = NextPos(nf, NoPos)
                   /\ pc' = IF pos' = NoPos THEN "save" ELSE "post"
    /\ UNCHANGED << WEBHOOK_URL, file, site, already, call, posted, loaded, outcome,
                    writes, prev >>

\* send_to_discord entered for item it.
NewCall(it) ==
    [status |-> "running", section |-> it.section, url |-> it.url,
     attempts |-> 0, sleeps |-> 0, slept |-> 0, last |-> "none"]

\* Mutant of PostOnce: a 429 is retried at once, without time.sleep.
PostOnce_NoBackoff(c, resp, hint) ==
    LET n == c.attempts + 1
        p == [c EXCEPT !.attempts = n, !.last = resp, !.slept = 0]
    IN  IF resp = "transport_error" THEN [p EXCEPT !.status = "raised"]
        ELSE IF resp = "s429"
             THEN [p EXCEPT !.status = IF n < max_retries THEN "running" ELSE "raised"]
        ELSE IF RaiseForStatus(resp) THEN [p EXCEPT !.status = "raised"]
        ELSE [p EXCEPT !.slept = POST_SPACING, !.status = "returned"]

\* Mutant of PostOnce: the loop falls through without the final raise.
PostOnce_ExhaustReturns(c, resp, hint) ==
    LET n == c.attempts + 1
        p == [c EXCEPT !.attempts = n, !.last = resp, !.slept = 0]
    IN  IF resp = "transport_error" THEN [p EXCEPT !.status = "raised"]
        ELSE IF resp = "s429"
             THEN IF SleepRaises(hint) THEN [p EXCEPT !.status = "raised"]
                  ELSE [p EXCEPT !.sleeps = c.sleeps + 1,
                                 !.slept = SleepSeconds(hint),
                                 !.status = IF n < max_retries THEN "running" ELSE "returned"]
        ELSE IF RaiseForStatus(resp) THEN [p EXCEPT !.status = "raised"]
        ELSE [p EXCEPT !.slept = POST_SPACING, !.status = "returned"]

\* Mutant of PostOnce: the retry counter stops before the bound, so the
\* loop goes on for as long as the webhook answers 429.
PostOnce_RetryForever(c, resp, hint) ==
    LET n == IF c.attempts + 1 < max_retries THEN c.attempts + 1 ELSE c.attempts
        p == [c EXCEPT !.attempts = n, !.last = resp, !.slept = 0]
    IN  IF resp = "transport_error" THEN [p EXCEPT !.status = "raised"]
        ELSE IF resp = "s429"
             THEN IF SleepRaises(hint) THEN [p EXCEPT !.status = "raised"]
                  ELSE [p EXCEPT !.sleeps = IF c.sleeps < max_retries THEN c.sleeps + 1
                                            ELSE c.sleeps,
                                 !.slept = SleepSeconds(hint),
                                 !.status = "running"]
        ELSE IF RaiseForStatus(resp) THEN [p EXCEPT !.status = "raised"]
        ELSE [p EXCEPT !.slept = POST_SPACING, !.status = "returned"]

\* One iteration of "for attempt in range(max_retries)" in send_to_discord:
\* the POST, then what its answer leads to.  status "returned": the call
\* returned; "raised": it raised; "running": the loop goes on.
PostOnce(c, resp, hint) ==
    LET n == c.attempts + 1
        p == [c EXCEPT !.attempts = n, !.last = resp, !.slept = 0]
    IN  IF resp = "transport_error" THEN [p EXCEPT !.status = "raised"]
        ELSE IF resp = "s429"
             THEN IF SleepRaises(hint) THEN [p EXCEPT !.status = "raised"]
                  ELSE [p EXCEPT !.sleeps = c.sleeps + 1,
                                 !.slept = SleepSeconds(hint),
                                 !.status = IF n < max_retries THEN "running" ELSE "raised"]
        ELSE IF RaiseForStatus(resp) THEN [p EXCEPT !.status = "raised"]
        ELSE [p EXCEPT !.slept = POST_SPACING, !.status = "returned"]

\* Mutant of AlreadyAfter: the url is never added.
AlreadyAfter_NoAdd(seen, c) == seen

\* Mutant of AlreadyAfter: the url is added in the except branch too.
AlreadyAfter_AddAlways(seen, c) ==
    IF c.status \in {"returned", "raised"} THEN seen \cup {c.url} ELSE seen

\* already.add(it["url"]) after a call that returned
AlreadyAfter(seen, c) == IF c.status = "returned" THEN seen \cup {c.url} ELSE seen

\* One POST of the item the loops are at, and, when it ends the call, the
\* try/except around send_to_discord in run_once.
Attempt(resp, hint) ==
    /\ pc = "post"
    /\ resp # "s429" => hint = "absent"
    /\ LET items == new_found_by_section[CHECK_PAGES[pos.sec]]
           it  == to_post(items)[pos.idx]
           cur == IF call.status = "running" THEN call ELSE NewCall(it)
           c   == PostOnce(cur, resp, hint)
       IN  /\ call' = c
           /\ already' = MarkSkipped(AlreadyAfter(already, c), items,
                                     c.status # "running" /\ pos.idx = Len(to_post(items)))
           /\ IF c.status = "running"
              THEN UNCHANGED << pc, pos, posted, outcome >>
              ELSE /\ posted' = IF c.status = "returned" THEN posted + 1 ELSE posted
                   /\ outcome' = outcome \cup
                        {[section |-> c.section, url |-> c.url,
                          result |-> IF c.status = "returned" THEN "delivered" ELSE "failed"]}
                   /\ pos' = NextPos(new_found_by_section, pos)
                   /\ pc' = IF pos' = NoPos THEN "save" ELSE "post"
    /\ UNCHANGED << WEBHOOK_URL, file, site, new_found_by_section, sec, loaded, fetched,
                    writes, prev >>

\* Mutant of save_state: an existing file is left as it is.
save_state_KeepsExisting(f, seen) ==
    IF f.kind = "missing" THEN File("ok", Sorted(seen)) ELSE f

\* STATE_FILE.write_text(json.dumps({"seen": sorted(list(already))})): what
\* the file f holds after a write that succeeds
save_state(f, seen) == File("ok", Sorted(seen))

\* Mutant of AfterSave: the exception of write_text is swallowed.
AfterSave_Swallowed(w) == "done"

\* Where run_once is after line 176: at the summary line and its return, or
\* out by the exception write_text raised.
AfterSave(w) == IF w = "ok" THEN "done" ELSE "crashed"

\* save_state({"seen": sorted(list(already))}) and the summary line.
\* w: whether write_text succeeds.
SaveState(w) ==
    /\ pc = "save"
    /\ writes' = writes + 1
    /\ IF w = "ok"
       THEN file' = save_state(file, already)
       ELSE file' \in FailedWrite(file)
    /\ pc' = AfterSave(w)
    /\ UNCHANGED << WEBHOOK_URL, site, already, new_found_by_section, sec, pos, call, posted,
                    loaded, fetched, outcome, prev >>

\* Runs one after the other, each observed on its own.
Next ==
    \/ ConfigError
    \/ \E w \in {"ok", "fail"} : StartRun(w, "none")
    \/ \E r \in {"ok", "error"} : FetchSection(r)
    \/ \E resp \in Responses, hint \in Hints : Attempt(resp, hint)
    \/ \E w \in {"ok", "fail"} : SaveState(w)

\* The same runs, each started with the history of the one before it.
NextRuns ==
    \/ ConfigError
    \/ \E w \in {"ok", "fail"} : StartRun(w, "last")
    \/ \E r \in {"ok", "error"} : FetchSection(r)
    \/ \E resp \in Responses, hint \in Hints : Attempt(resp, hint)
    \/ \E w \in {"ok", "fail"} : SaveState(w)

Spec == Init /\ [][Next]_vars

SpecAnyFile == InitAnyFile /\ [][Next]_vars

SpecRuns == InitRuns /\ [][NextRuns]_vars

\* The same runs, each started with the history of all runs before it.
NextHistory ==
    \/ ConfigError
    \/ \E w \in {"ok", "fail"} : StartRun(w, "all")
    \/ \E r \in {"ok", "error"} : FetchSection(r)
    \/ \E resp \in Responses, hint \in Hints : Attempt(resp, hint)
    \/ \E w \in {"ok", "fail"} : SaveState(w)

SpecHistory == InitHistory /\ [][NextHistory]_vars

SpecStore == InitStore /\ [][Next]_vars

\* run_once is sequential code: requests.post returns or raises within
\* TIMEOUT and time.sleep returns, so a step that can be taken is taken.
SpecFair ==
    /\ InitRuns
    /\ [][Next]_vars
    /\ WF_vars(\E r \in {"ok", "error"} : FetchSection(r))
    /\ WF_vars(\E resp \in Responses, hint \in Hints : Attempt(resp, hint))

\* The collecting loop of one run: run_once up to line 151.
NextExtract ==
    \/ ConfigError
    \/ StartRun("ok", "none")
    \/ \E r \in {"ok", "error"} : FetchSection(r)

SpecExtract == InitExtract /\ [][NextExtract]_vars

\* ==================================================================
\* Helpers of the properties
\* ==================================================================
Delivered == { o \in outcome : o.result = "delivered" }

Failed == { o \in outcome : o.result = "failed" }

\* The urls of the items a section's page yields.
Listed(s) == { it.url : it \in ToSet(extract_items(s, site[s])) }

\* The posting loops are over.
PostingOver == pc \in {"save", "done"}

\* C1: no item whose url is in the SeenSet loaded at the start of the run is
\* passed to send_to_discord: neither the current call nor any call the run
\* has made is for a loaded url, and no such item is queued for posting.
C1_SeenNeverSent ==
    /\ call.status # "none" => call.url \notin loaded
    /\ \A o \in outcome : o.url \notin loaded
    /\ \A s \in DOMAIN new_found_by_section :
         \A i \in 1..Len(new_found_by_section[s]) :
            new_found_by_section[s][i].url \notin loaded

\* C1 witness: a run that loaded a url which a fetched page lists has made
\* a delivery call (for another url) and finished.
C1_Witness ==
    /\ pc = "done"
    /\ outcome # {}
    /\ \E s \in Sections :
         /\ s \in DOMAIN fetched /\ fetched[s] = "ok"
         /\ Listed(s) \cap loaded # {}

\* C2: within one run no url receives more than one successful delivery,
\* also when two sections list it.
C2_OnceAcrossSections ==
    \A o1, o2 \in Delivered : o1.url = o2.url => o1.section = o2.section

\* K of the backfill cap, scaled to the pages of the model.  The source sets
\* BACKFILL_CAP_PER_SECTION = 15 and never reads it.
CapK == 1

\* C3: for a section with more than K new items, the run makes delivery
\* calls for exactly the first K of them in document order and adds the
\* urls of the others to the SeenSet without a call.
C3_BackfillCap ==
    PostingOver =>
      \A s \in DOMAIN new_found_by_section :
        LET items == new_found_by_section[s]
        IN  Len(items) > CapK =>
              /\ { o.url : o \in { x \in outcome : x.section = s } }
                   = { items[i].url : i \in 1..CapK }
              /\ \A i \in (CapK + 1)..Len(items) : items[i].url \in already

\* C4 as stated: a run that follows a completed run over the same pages,
\* all of them fetched, delivers nothing.
C4_RerunDeliversNothing == (prev.saved /\ prev.fetched_all) => Delivered = {}

\* C4 amended: when the first run fetched every section, had every delivery
\* succeed and saved its SeenSet, the run that follows it over the same
\* pages finds no new item and makes no delivery call.
C4_CleanRerunDeliversNothing ==
    prev.clean =>
      /\ outcome = {}
      /\ call.status = "none"
      /\ posted = 0
      /\ \A s \in DOMAIN new_found_by_section : new_found_by_section[s] = << >>

\* C4 witness: the first run delivered something and was clean; the second
\* has fetched every section and finished.
C4_Witness ==
    /\ prev.clean /\ prev.delivered
    /\ pc = "done"
    /\ \A s \in Sections : fetched[s] = "ok"

\* C5: (a) a url whose delivery failed in a run, and was not delivered by
\* it, is absent from the SeenSet the run persists; (b) in the next run it
\* is among the new items of every fetched section that lists it, and a
\* delivery call is made for it; (c) no url enters the SeenSet during a run
\* without a successful delivery of it.
C5_FailedStaysPending ==
    /\ pc = "done" =>
         \A o \in Failed :
            (\A d \in Delivered : d.url # o.url) => o.url \notin ToSet(file.seen)
    /\ \A u \in prev.failed, s \in DOMAIN fetched :
         (fetched[s] = "ok" /\ u \in Listed(s)) =>
            /\ \E i \in 1..Len(new_found_by_section[s]) :
                  new_found_by_section[s][i].url = u
            /\ PostingOver => \E o \in outcome : o.section = s /\ o.url = u
    /\ \A u \in already \ loaded : \E d \in Delivered : d.url = u

\* C5 witness: a url that failed in the previous run has been tried again
\* in this one, which finished.
C5_Witness ==
    /\ pc = "done"
    /\ \E o \in outcome : o.url \in prev.failed

\* C6: after a first attempt answered 429 the call has slept once before it
\* posts again, and when the second attempt is answered 2xx the call
\* returns, the item has exactly one successful delivery and its url is in
\* the SeenSet.
C6_RetryAfterRateLimit ==
    /\ (call.status = "running" /\ call.attempts = 1) =>
          call.last = "s429" /\ call.sleeps = 1 /\ call.slept > 0
    /\ (call.status = "returned" /\ call.attempts = 2 /\ call.last = "s2xx") =>
          /\ call.sleeps = 1
          /\ call.url \in already
          /\ [section |-> call.section, url |-> call.url, result |-> "delivered"] \in outcome
          /\ [section |-> call.section, url |-> call.url, result |-> "failed"] \notin outcome
          /\ posted = Cardinality(Delivered)

\* C6 witness: a call answered 429, then 2xx, has returned.
C6_Witness ==
    call.status = "returned" /\ call.attempts = 2 /\ call.last = "s2xx" /\ call.sleeps = 1

\* The position of a call's item in the posting loops.
PosOf(c) ==
    [sec |-> SectionIndex(c.section),
     idx |-> CHOOSE i \in 1..Len(new_found_by_section[c.section]) :
                new_found_by_section[c.section][i].url = c.url]

\* The call is over and every one of its max_retries attempts was answered
\* 429.
Exhausted(c) ==
    c.status \in {"returned", "raised"} /\ c.attempts = max_retries /\ c.last = "s429"

\* C7: a call whose every attempt up to max_retries is answered 429 is a
\* failure of that item alone: the item is recorded failed, its url is not
\* added to the SeenSet nor saved (unless the run delivered the url), and
\* the loops go on to the next item, or to the save step after the last.
C7_RetryExhaustion ==
    Exhausted(call) =>
      /\ call.status = "raised"
      /\ [section |-> call.section, url |-> call.url, result |-> "failed"] \in outcome
      /\ [section |-> call.section, url |-> call.url, result |-> "delivered"] \notin outcome
      /\ (\A d \in Delivered : d.url # call.url) =>
            /\ call.url \notin already
            /\ pc = "done" => call.url \notin ToSet(file.seen)
      /\ pos = NextPos(new_found_by_section, PosOf(call))
      /\ pos # NoPos => pc = "post"
      /\ pos = NoPos => pc \in {"save", "done"} \/ (pc = "crashed" /\ writes > 0)

\* C7 witness: a run with several items, one of which exhausted its
\* attempts, saved a SeenSet without that url.
C7_Witness ==
    /\ Exhausted(call)
    /\ pc = "done"
    /\ Delivered # {}
    /\ call.url \notin ToSet(file.seen)

\* C8: a non-2xx status other than 429, or a transport error, ends the call
\* as a failure of the item: the item is recorded failed and its url is not
\* added to the SeenSet (unless another listing of the url was delivered).
C8_ErrorFailsAtOnce ==
    (call.status # "none" /\ call.last \in {"s3xx", "s4xx5xx", "transport_error"}) =>
      /\ call.status = "raised"
      /\ [section |-> call.section, url |-> call.url, result |-> "failed"] \in outcome
      /\ (\A d \in Delivered : d.url # call.url) => call.url \notin already

\* A run ended by an exception raised after its collecting loop.
CrashedAtSave == pc = "crashed" /\ DOMAIN fetched = Sections /\ writes > 0

\* C9: when extraction of a section raises, that section contributes no
\* item, every other section is extracted, diffed against the SeenSet and
\* has each of its new items passed to the delivery sink, and the run is
\* not ended by the error: it goes on to the save step.
C9_SourceIsolation ==
    /\ \A s \in DOMAIN fetched :
         IF fetched[s] = "error"
         THEN /\ s \notin DOMAIN new_found_by_section
              /\ \A o \in outcome : o.section # s
         ELSE /\ s \in DOMAIN new_found_by_section
              /\ new_found_by_section[s] = NewItems(extract_items(s, site[s]), loaded)
              /\ PostingOver =>
                   \A i \in 1..Len(new_found_by_section[s]) :
                      \E o \in outcome :
                         o.section = s /\ o.url = new_found_by_section[s][i].url
    /\ (\E s \in DOMAIN fetched : fetched[s] = "error") =>
         \/ pc \in {"collect", "post", "save", "done"}
         \/ CrashedAtSave

\* C9 witness: a run in which one section raised and another had an item
\* delivered has saved its state.
C9_Witness ==
    /\ pc = "done"
    /\ \E s, t \in Sections :
         /\ fetched[s] = "error"
         /\ fetched[t] = "ok"
         /\ \E d \in Delivered : d.section = t

\* C10: loading never raises: a run ends by an exception only where a write
\* of the state file raised, and a run that found a missing, unreadable or
\* malformed file proceeds with an empty SeenSet.
C10_LoadNeverRaises ==
    /\ pc = "crashed" => writes > 0
    /\ (pc \in {"collect", "post", "save"} /\ file.kind \notin {"ok", "nokey"}) =>
          loaded = {}

C12_WrittenOnceAtomically ==
    /\ pc \in {"collect", "post", "save"} => writes = 0
    /\ pc = "done" => writes = 1
    /\ file.kind # "garbage"

\* C13: a failing write at the end of the run is not swallowed: the save
\* step either leaves the serialised SeenSet in the file and reaches the
\* summary line, or ends the run by the exception of write_text.
C13_SaveFailurePropagates ==
    [][pc = "save" =>
         \/ pc' = "done" /\ file' = save_state(file, already)
         \/ pc' = "crashed" /\ file' \in FailedWrite(file)]_vars

\* C13 witness: a run that delivered an item ended by an exception in
\* save_state, the file left without that item's url.
C13_Witness ==
    /\ pc = "crashed"
    /\ DOMAIN fetched = Sections
    /\ writes > 0
    /\ \E d \in Delivered : file.kind = "ok" => d.url \notin ToSet(file.seen)

\* C14: without an endpoint the process fails before anything else: every
\* step of a process whose MAPLESEA_WEBHOOK_URL is absent or empty is the
\* fatal startup error, and it fetches no source, starts no delivery call
\* and neither creates nor writes the state file.
C14_NoEndpointFailsFirst ==
    [][WEBHOOK_URL = "" =>
         /\ pc' = "fatal"
         /\ UNCHANGED << file, writes, fetched, new_found_by_section, call, outcome,
                         already >>]_vars

\* C14 witness: a process started without an endpoint, with no state file
\* and a page that lists an item, has failed at startup.
C14_Witness ==
    /\ WEBHOOK_URL = ""
    /\ pc = "fatal"
    /\ file.kind = "missing"
    /\ site[CHECK_PAGES[1]] # << >>

\* C15: within a section the delivery calls follow the document order: the
\* section's new items are the page's items in page order, the items whose
\* call has ended are the first k of them, and a call that is still making
\* attempts (retries after 429 included) is for item k + 1, so every
\* attempt for an item is over before the first attempt for a later one.
C15_DocumentOrder ==
    \A s \in DOMAIN new_found_by_section :
       LET items == new_found_by_section[s]
           ended == { i \in 1..Len(items) :
                        \E o \in outcome : o.section = s /\ o.url = items[i].url }
       IN  /\ items = NewItems(extract_items(s, site[s]), loaded)
           /\ \E k \in 0..Len(items) :
                /\ ended = 1..k
                /\ (call.status = "running" /\ call.section = s) =>
                      k < Len(items) /\ call.url = items[k + 1].url

\* C15 witness: the call for the second new item of a section is retrying
\* after a 429, the call for the first item having ended.
C15_Witness ==
    /\ pc = "post"
    /\ pos.idx = 2
    /\ call.status = "running"
    /\ call.last = "s429"
    /\ \E o \in outcome :
         /\ o.section = call.section
         /\ o.url = new_found_by_section[call.section][1].url

\* C16: the extractor's result for a page holds one item per url of the
\* page's candidate links (the anchors with a non-empty href and text): no
\* url twice, every candidate's url present, each item carrying the title
\* and date hint of the first anchor of its url, and the items in the
\* order of those first anchors.
C16_FirstOccurrencePerUrl ==
    \A s \in DOMAIN new_found_by_section :
       loaded = {} =>
          LET page == site[s]
              res  == new_found_by_section[s]
              cand == { k \in 1..Len(page) :
                          page[k].href.form # "empty" /\ page[k].title # "" }
              UrlAt(k) == ResolveHref(page[k].href)
              First(u) == CHOOSE k \in cand :
                             /\ UrlAt(k) = u
                             /\ \A j \in cand : UrlAt(j) = u => k <= j
          IN  /\ \A i, j \in 1..Len(res) : i # j => res[i].url # res[j].url
              /\ { res[i].url : i \in 1..Len(res) } = { UrlAt(k) : k \in cand }
              /\ \A i \in 1..Len(res) :
                    /\ res[i].section = s
                    /\ res[i].title = page[First(res[i].url)].title
                    /\ res[i].date_hint = page[First(res[i].url)].near
              /\ \A i, j \in 1..Len(res) :
                    i < j => First(res[i].url) < First(res[j].url)

\* C16 witness: a page whose first and third anchors give one url, written
\* differently and under different titles, with another link between them,
\* has been extracted to two items.
C16_Witness ==
    \E s \in DOMAIN new_found_by_section :
       /\ Len(site[s]) = 3
       /\ Len(new_found_by_section[s]) = 2
       /\ ResolveHref(site[s][1].href) = ResolveHref(site[s][3].href)
       /\ site[s][1].href # site[s][3].href
       /\ site[s][1].title # site[s][3].title
       /\ site[s][3].title # ""

\* C17: every item the extractor returns has an absolute url: whatever the
\* form of the link target, the item's url starts with the site origin.
C17_UrlAbsolute ==
    \A s \in DOMAIN new_found_by_section :
       \A i \in 1..Len(new_found_by_section[s]) :
          new_found_by_section[s][i].url.abs

\* The call of the state has answered 429 to its latest POST.
RateLimited == call.status # "none" /\ call.last = "s429"

C20_PersistedNeverRedelivered ==
    (/\ prev.always_fetched
     /\ \A s \in DOMAIN fetched : fetched[s] = "ok") =>
       \A d \in Delivered : d.url \notin prev.persisted

====
